---------------------------- MODULE Spec2Model ----------------------------
(***************************************************************************)
(* A model of pyLDAvis/prepare.py: the pipeline prepare() runs over the    *)
(* output of a topic model (validation, topic reordering, drift-corrected  *)
(* term-topic frequencies, the relevance sweep with its chunked workers,   *)
(* the token table, the topic coordinates and the final aggregate).        *)
(*                                                                         *)
(* Numbers.  Probabilities are integers in thousandths (700 is 0.7).       *)
(* Term frequencies are integers in tenths of a count (26 is 2.6).         *)
(* Derived ratios are kept exactly as records [num, den]; den = 0 is the   *)
(* float NaN a division by zero leaves.  A lambda of the sweep is kept as  *)
(* its numerator over the denominator of lambda_step.  np.log is a         *)
(* fixed-point logarithm (LnFx, scale 1024).  Labels of topics, documents  *)
(* and terms are the 0-based labels pandas gives; positions in sequences   *)
(* are 1-based.  A vocabulary label is a number standing for a string, in  *)
(* the lexical order of the strings.                                       *)
(***************************************************************************)
EXTENDS Integers, Sequences, FiniteSets, TLC

VARIABLES
    pc,                 \* where prepare() stands
    topic_term_dists,   \* argument: K x W matrix, a sequence of rows
    doc_topic_dists,    \* argument: D x K matrix, a sequence of rows
    doc_lengths,        \* argument: sequence of D document lengths
    vocab,              \* argument: sequence of W term labels
    term_frequency,     \* argument: sequence of W term frequencies (tenths)
    R,                  \* argument: number of terms shown
    lambda_step,        \* argument: <<numerator, denominator>>
    n_jobs,             \* argument
    cpus,               \* what joblib's cpu_count() returns on the machine
    error,              \* the exception that ended prepare(), or NoError
    order,              \* topic_freq, topic_proportion, topic_order and the reordered data
    term_topic_freq,    \* result of _term_topic_freq
    sweep,              \* inside _topic_info: default rows, lambda_seq, chunks, worker results
    topic_info,         \* result of _topic_info
    token_table,        \* result of _token_table
    prepared            \* topic_coordinates and the exported topic_order

vars == << pc, topic_term_dists, doc_topic_dists, doc_lengths, vocab, term_frequency,
           R, lambda_step, n_jobs, cpus, error, order, term_topic_freq, sweep,
           topic_info, token_table, prepared >>

args == << topic_term_dists, doc_topic_dists, doc_lengths, vocab, term_frequency,
           R, lambda_step, n_jobs, cpus >>

-----------------------------------------------------------------------------
(* Bounds of the model *)

MaxR == 4
MaxJobs == 2
MaxCpus == 1

-----------------------------------------------------------------------------
(* Arithmetic helpers *)

ndigits == 2

RECURSIVE Pow(_, _)
Pow(b, e) == IF e = 0 THEN 1 ELSE b * Pow(b, e - 1)

RECURSIVE GCD(_, _)
GCD(a, b) == IF b = 0 THEN a ELSE GCD(b, a % b)

Min(a, b) == IF a <= b THEN a ELSE b

RECURSIVE SumSeq(_)
SumSeq(s) == IF s = << >> THEN 0 ELSE Head(s) + SumSeq(Tail(s))

RECURSIVE FlattenSeq(_)
FlattenSeq(ss) == IF ss = << >> THEN << >> ELSE Head(ss) \o FlattenSeq(Tail(ss))

Range(s) == { s[i] : i \in DOMAIN s }

\* round(): n/d (n >= 0, d > 0) to the nearest integer, a tie to the even one
Round(n, d) ==
    LET q == n \div d
        r == n % d
    IN  IF 2 * r < d THEN q
        ELSE IF 2 * r > d THEN q + 1
        ELSE IF q % 2 = 0 THEN q ELSE q + 1

-----------------------------------------------------------------------------
(* Input validation: __num_dist_rows__, _input_check, _input_validate *)

Shape(m) == << Len(m), IF Len(m) = 0 THEN 0 ELSE Len(m[1]) >>

\* the row sums, each rounded to ndigits decimals (in hundredths), summed, cut to an int
NumDistRows(array) ==
    LET rounded == [i \in 1..Len(array) |->
                       Round(SumSeq(array[i]), Pow(10, 3 - ndigits))]
    IN  SumSeq(rounded) \div Pow(10, ndigits)

MsgTopics == "Number of rows of topic_term_dists does not match number of columns of doc_topic_dists"
MsgDocs == "Length of doc_lengths not equal to the number of rows in doc_topic_dists"
MsgVocab == "Number of terms in vocabulary does not match the number of columns of topic_term_dists"
MsgTermFreq == "Length of term_frequency not equal to the number of terms in the vocabulary"
MsgTopicTermRows == "Not all rows (distributions) in topic_term_dists sum to 1."
MsgDocTopicRows == "Not all rows (distributions) in doc_topic_dists sum to 1."

Err(cond, msg) == IF cond THEN << msg >> ELSE << >>

\* _input_check as it would be if it returned at the first error
InputCheckFailFast(ttd, dtd, dl, vc, tf) ==
    LET ttds == Shape(ttd)
        dtds == Shape(dtd)
        W == Len(vc)
        all == Err(dtds[2] # ttds[1], MsgTopics)
               \o Err(Len(dl) # dtds[1], MsgDocs)
               \o Err(ttds[2] # W, MsgVocab)
               \o Err(Len(tf) # W, MsgTermFreq)
               \o Err(NumDistRows(ttd) # ttds[1], MsgTopicTermRows)
               \o Err(NumDistRows(dtd) # dtds[1], MsgDocTopicRows)
    IN  IF all = << >> THEN << >> ELSE << Head(all) >>

\* _input_check: the list of errors; the empty list stands for the None the code returns
InputCheck(ttd, dtd, dl, vc, tf) ==
    LET ttds == Shape(ttd)
        dtds == Shape(dtd)
        W == Len(vc)
    IN  Err(dtds[2] # ttds[1], MsgTopics)
        \o Err(Len(dl) # dtds[1], MsgDocs)
        \o Err(ttds[2] # W, MsgVocab)
        \o Err(Len(tf) # W, MsgTermFreq)
        \o Err(NumDistRows(ttd) # ttds[1], MsgTopicTermRows)
        \o Err(NumDistRows(dtd) # dtds[1], MsgDocTopicRows)

NoError == [kind |-> "none", bullets |-> << >>]

\* _input_validate: raise ValidationError with one bullet per collected error
InputValidate ==
    /\ pc = "start"
    /\ LET res == InputCheck(topic_term_dists, doc_topic_dists, doc_lengths,
                             vocab, term_frequency)
       IN  IF res # << >>
           THEN /\ pc' = "raised"
                /\ error' = [kind |-> "ValidationError", bullets |-> res]
           ELSE /\ pc' = "validated"
                /\ error' = error
    /\ UNCHANGED << args, order, term_topic_freq, sweep, topic_info, token_table, prepared >>

-----------------------------------------------------------------------------
(* Topic reordering: prepare(), lines 194-200 *)

Labels(n) == 0..(n - 1)

LabelPerms(n) == { s \in [1..n -> Labels(n)] : \A i, j \in 1..n : s[i] = s[j] => i = j }

\* a ratio kept exactly, in lowest terms
Frac(n, d) == LET g == GCD(n, d) IN IF g = 0 THEN [num |-> n, den |-> d]
                                     ELSE [num |-> n \div g, den |-> d \div g]

IsNaN(x) == x.den = 0

\* position of a label in an index
PosOf(index, label) == CHOOSE i \in DOMAIN index : index[i] = label

\* (doc_topic_dists.T * doc_lengths).T.sum(): the mass of each topic, by topic label
TopicFreq(dtd, dl) ==
    [k \in 1..Shape(dtd)[2] |-> SumSeq([d \in 1..Len(dtd) |-> dtd[d][k] * dl[d]])]

\* the orders of an ascending sort
SortedAscending(freq) ==
    { s \in LabelPerms(Len(freq)) :
        \A i \in 1..(Len(freq) - 1) : freq[s[i] + 1] <= freq[s[i + 1] + 1] }

\* Series.order(ascending=False): the orders a sort may return (ties in any order)
SortedDescending(freq) ==
    { s \in LabelPerms(Len(freq)) :
        \A i \in 1..(Len(freq) - 1) : freq[s[i] + 1] >= freq[s[i + 1] + 1] }

\* the data reordered by topic_order; a frame keeps its labels beside its values
Reordered(dtd, ttd, topic_freq, topic_order) ==
    LET K == Len(topic_order)
        total == SumSeq(topic_freq)
    IN  [ topic_freq |-> topic_freq,
          topic_order |-> topic_order,
          topic_proportion |->
              [index |-> topic_order,
               values |-> [i \in 1..K |-> Frac(topic_freq[topic_order[i] + 1], total)]],
          r_topic_freq |->
              [index |-> topic_order,
               values |-> [i \in 1..K |-> topic_freq[topic_order[i] + 1]]],
          r_topic_term_dists |->
              [index |-> topic_order,
               values |-> [i \in 1..K |-> ttd[topic_order[i] + 1]]],
          r_doc_topic_dists |->
              [columns |-> topic_order,
               values |-> [d \in 1..Len(dtd) |-> [i \in 1..K |-> dtd[d][topic_order[i] + 1]]]] ]

TopicReorder ==
    /\ pc = "validated"
    /\ LET topic_freq == TopicFreq(doc_topic_dists, doc_lengths)
       IN  \E topic_order \in SortedDescending(topic_freq) :
               order' = Reordered(doc_topic_dists, topic_term_dists, topic_freq, topic_order)
    /\ pc' = "reordered"
    /\ UNCHANGED << args, error, term_topic_freq, sweep, topic_info, token_table, prepared >>

-----------------------------------------------------------------------------
(* _term_topic_freq *)

\* value of a Series at a label
SeriesLoc(series, label) == series.values[PosOf(series.index, label)]

\* (topic_term_dists.T * topic_freq).T, aligned on the topic labels, then scaled per
\* term by term_frequency / column sum.  A count, as an exact ratio; den = 0 is NaN.
TermTopicFreq(ttd, topic_freq, tf) ==
    LET K == Len(ttd.index)
        W == Len(tf)
        raw == [i \in 1..K |-> [w \in 1..W |->
                   ttd.values[i][w] * SeriesLoc(topic_freq, ttd.index[i])]]
        colsum == [w \in 1..W |-> SumSeq([i \in 1..K |-> raw[i][w]])]
    IN  [index |-> ttd.index,
         values |-> [i \in 1..K |-> [w \in 1..W |->
                        IF colsum[w] = 0 THEN [num |-> 0, den |-> 0]
                        ELSE Frac(raw[i][w] * tf[w], 10 * colsum[w])]]]

TermTopicFreqStep ==
    /\ pc = "reordered"
    /\ term_topic_freq' = TermTopicFreq(order.r_topic_term_dists, order.r_topic_freq,
                                        term_frequency)
    /\ pc' = "freq"
    /\ UNCHANGED << args, error, order, sweep, topic_info, token_table, prepared >>

-----------------------------------------------------------------------------
(* Logarithms: np.log as a fixed-point number, scale 1024 *)

RECURSIVE FloorLog2(_)
FloorLog2(n) == IF n < 2 THEN 0 ELSE 1 + FloorLog2(n \div 2)

\* the next k bits of log2 of the mantissa y, 2^14 <= y < 2^15
RECURSIVE FracBits(_, _)
FracBits(y, k) ==
    IF k = 0 THEN 0
    ELSE LET y2 == (y * y) \div 16384
         IN  IF y2 >= 32768 THEN Pow(2, k - 1) + FracBits(y2 \div 2, k - 1)
             ELSE FracBits(y2, k - 1)

Log2Fx(n) ==
    LET e == FloorLog2(n)
        m == IF e <= 14 THEN n * Pow(2, 14 - e) ELSE n \div Pow(2, e - 14)
    IN  e * 1024 + FracBits(m, 10)

\* ln(n) * 1024 for an integer n >= 1 (ln 2 = 710 / 1024)
LnFx(n) == (Log2Fx(n) * 710) \div 1024

RoundSigned(n, d) == IF n >= 0 THEN Round(n, d) ELSE 0 - Round(0 - n, d)

Fin(v) == [kind |-> "fin", v |-> v]
NegInf == [kind |-> "-inf", v |-> 0]

\* np.log(a / b).round(4), in units of 0.0001; log(0) is -inf
Log4(a, b) == IF a = 0 THEN NegInf
              ELSE Fin(RoundSigned((LnFx(a) - LnFx(b)) * 10000, 1024))

-----------------------------------------------------------------------------
(* _topic_info: the default rows *)

Terms(W) == 0..(W - 1)

\* the elements in the order a sort leaves them, given for each the number of elements
\* that sort before it
SortBy(before) ==
    [r \in 1..Cardinality(DOMAIN before) |-> CHOOSE w \in DOMAIN before : before[w] = r - 1]

HeadSeq(s, n) == SubSeq(s, 1, Min(n, Len(s)))

\* saliency of each term (scale 1024 * 1000), or NaN for a term no topic holds:
\* term_proportion * sum over topics of topic_given_term * log(topic_given_term / topic_proportion)
Saliency(ttd, topic_proportion, tf) ==
    LET K == Len(ttd.index)
        W == Len(tf)
        S == SumSeq(tf)
        colsum == [w \in 1..W |-> SumSeq([i \in 1..K |-> ttd.values[i][w]])]
        kernel(i, w) ==
            LET p == ttd.values[i][w]
                prop == SeriesLoc(topic_proportion, ttd.index[i])
            IN  IF p = 0 THEN 0    \* 0 * log(0) is NaN, which sum() skips
                ELSE p * (LnFx(p * prop.den) - LnFx(colsum[w] * prop.num))
        distinctiveness == [w \in 1..W |->
            IF colsum[w] = 0 THEN 0
            ELSE SumSeq([i \in 1..K |-> kernel(i, w)]) \div colsum[w]]
    IN  [w \in 1..W |->
            IF colsum[w] = 0 THEN [nan |-> TRUE, v |-> 0]
            ELSE [nan |-> FALSE, v |-> (tf[w] * distinctiveness[w] * 1000) \div S]]

\* sort('saliency', ascending=False).head(R): term labels, NaN last, ties by label
DefaultTerms(saliency, r) ==
    LET W == Len(saliency)
        Before(v, w) ==
            LET sv == saliency[v + 1]
                sw == saliency[w + 1]
            IN  \/ ~sv.nan /\ sw.nan
                \/ ~sv.nan /\ ~sw.nan /\ sv.v > sw.v
                \/ sv.nan = sw.nan /\ (sv.nan \/ sv.v = sw.v) /\ v < w
    IN  HeadSeq(SortBy([w \in Terms(W) |-> Cardinality({ v \in Terms(W) : Before(v, w) })]), r)

DefaultCategory == [name |-> "Default", id |-> 0]

\* the rows of default_term_info with the ranks R..1 as logprob and loglift;
\* ranks has R entries, the frame min(R, W) rows: the assignment needs them equal
DefaultTermInfo(ttd, topic_proportion, tf, vc, r) ==
    LET terms == DefaultTerms(Saliency(ttd, topic_proportion, tf), r)
        ranks == [i \in 1..r |-> r - i + 1]
    IN  [ ok |-> Len(terms) = Len(ranks),
          rows |-> [i \in 1..Len(terms) |->
                      [index |-> terms[i],
                       Term |-> vc[terms[i] + 1],
                       Freq |-> Frac(tf[terms[i] + 1], 10),
                       Total |-> tf[terms[i] + 1],
                       logprob |-> Fin(ranks[i] * 10000),
                       loglift |-> Fin(ranks[i] * 10000),
                       Category |-> DefaultCategory]] ]

-----------------------------------------------------------------------------
(* _topic_info: the relevance sweep *)

\* np.arange(0, 1 + lambda_step, lambda_step): the numerators i * step[1] over step[2]
LambdaSeq(step) ==
    [i \in 1..((step[2] + step[1] + step[1] - 1) \div step[1]) |-> (i - 1) * step[1]]

\* _chunks: successive n-sized chunks of l
Chunks(l, n) ==
    [j \in 1..((Len(l) + n - 1) \div n) |-> SubSeq(l, (j - 1) * n + 1, Min(j * n, Len(l)))]

JobChunks(l, jobs, ncpus) ==
    LET n_chunks == IF jobs < 0 THEN ncpus + 1 - jobs ELSE jobs
    IN  Chunks(l, n_chunks)

\* whether term v has a greater relevance than term w in the topic with the row p,
\* for lambda = m / den: relevance = lambda * log(p) + (1 - lambda) * log(p / term_proportion),
\* compared exactly.  A term of probability 0 has relevance -inf or NaN and sorts last;
\* equal relevances are taken in label order.
RelevanceBefore(p, tf, m, den, v, w) ==
    LET pv == p[v + 1]
        pw == p[w + 1]
        gp == GCD(pv, pw)
        a == pv \div gp
        c == pw \div gp
        gt == GCD(tf[v + 1], tf[w + 1])
        b == tf[v + 1] \div gt
        d == tf[w + 1] \div gt
        e == den - m
        lhs == IF e >= 0 THEN Pow(a, den) * Pow(d, e) ELSE Pow(a, den) * Pow(b, 0 - e)
        rhs == IF e >= 0 THEN Pow(c, den) * Pow(b, e) ELSE Pow(c, den) * Pow(d, 0 - e)
    IN  IF pv = 0 \/ pw = 0
        THEN (pv # 0 /\ pw = 0) \/ (pv = 0 /\ pw = 0 /\ v < w)
        ELSE lhs > rhs \/ (lhs = rhs /\ v < w)

\* _find_relevance: for each topic (a column, in the order of ttd's index) the labels of
\* its terms by decreasing relevance, cut to head(R)
FindRelevance(ttd, tf, r, m, den) ==
    [i \in 1..Len(ttd.index) |->
        LET Before(v, w) == RelevanceBefore(ttd.values[i], tf, m, den, v, w)
        IN  HeadSeq(SortBy([w \in Terms(Len(tf)) |->
                Cardinality({ v \in Terms(Len(tf)) : Before(v, w) })]), r)]

\* pd.concat of a sequence of frames with the same columns: column by column
ConcatFrames(frames, ncols) ==
    [i \in 1..ncols |-> FlattenSeq([f \in 1..Len(frames) |-> frames[f][i]])]

\* _find_relevance_chunks: the frames of the lambdas of one chunk, concatenated
FindRelevanceChunks(ttd, tf, r, lambda_chunk, den) ==
    ConcatFrames([l \in 1..Len(lambda_chunk) |->
                     FindRelevance(ttd, tf, r, lambda_chunk[l], den)],
                 Len(ttd.index))

\* Series.unique(): the values in the order of their first appearance
RECURSIVE Unique(_)
Unique(s) ==
    IF s = << >> THEN << >>
    ELSE LET init == Unique(SubSeq(s, 1, Len(s) - 1))
             last == s[Len(s)]
         IN  IF last \in Range(init) THEN init ELSE Append(init, last)

\* row of a frame at a topic label
FrameLoc(frame, label) == frame.values[PosOf(frame.index, label)]

TopicCategory(id) == [name |-> "Topic", id |-> id]

\* topic_top_term_df as it would be if it read the row at position original_topic_id
TopicTopTermDfByPosition(new_topic_id, original_topic_id, topic_terms, ttd, ttf, tf, vc) ==
    LET term_ix == Unique(topic_terms)
        S == SumSeq(tf)
    IN  [t \in 1..Len(term_ix) |->
            LET w == term_ix[t]
                p == ttd.values[original_topic_id + 1][w + 1]
            IN  [index |-> w,
                 Term |-> vc[w + 1],
                 Freq |-> ttf.values[original_topic_id + 1][w + 1],
                 Total |-> tf[w + 1],
                 logprob |-> Log4(p, 1000),
                 loglift |-> Log4(p * S, 1000 * tf[w + 1]),
                 Category |-> TopicCategory(new_topic_id)]]

\* topic_top_term_df: the rows of one topic, read at the topic's original label
TopicTopTermDf(new_topic_id, original_topic_id, topic_terms, ttd, ttf, tf, vc) ==
    LET term_ix == Unique(topic_terms)
        S == SumSeq(tf)
    IN  [t \in 1..Len(term_ix) |->
            LET w == term_ix[t]
                p == FrameLoc(ttd, original_topic_id)[w + 1]
            IN  [index |-> w,
                 Term |-> vc[w + 1],
                 Freq |-> FrameLoc(ttf, original_topic_id)[w + 1],
                 Total |-> tf[w + 1],
                 logprob |-> Log4(p, 1000),
                 loglift |-> Log4(p * S, 1000 * tf[w + 1]),
                 Category |-> TopicCategory(new_topic_id)]]

\* the per-topic frames of the concatenated worker results, after the default rows
TopicInfoRows(default_rows, results, ttd, ttf, tf, vc) ==
    LET K == Len(ttd.index)
        top_terms == ConcatFrames(results, K)
    IN  default_rows
        \o FlattenSeq([i \in 1..K |->
                TopicTopTermDf(i, ttd.index[i], top_terms[i], ttd, ttf, tf, vc)])

Pending == [done |-> FALSE, top |-> << >>]

\* lines 116-137 and the dispatch of line 149: the default rows, the sweep, its chunks
TopicInfoBegin ==
    /\ pc = "freq"
    /\ LET dflt == DefaultTermInfo(order.r_topic_term_dists, order.topic_proportion,
                                   term_frequency, vocab, R)
           lambda_seq == LambdaSeq(lambda_step)
           chunks == JobChunks(lambda_seq, n_jobs, cpus)
       IN  IF dflt.ok
           THEN /\ pc' = "sweep"
                /\ error' = error
                /\ sweep' = [default_term_info |-> dflt.rows,
                             lambda_seq |-> lambda_seq,
                             chunks |-> chunks,
                             results |-> [c \in 1..Len(chunks) |-> Pending]]
           ELSE /\ pc' = "failed"
                /\ error' = [kind |-> "ValueError", bullets |-> << >>]
                /\ sweep' = sweep
    /\ UNCHANGED << args, order, term_topic_freq, topic_info, token_table, prepared >>

\* one worker of Parallel runs _find_relevance_chunks on one chunk
FindRelevanceWorker ==
    /\ pc = "sweep"
    /\ \E c \in 1..Len(sweep.chunks) :
          /\ ~sweep.results[c].done
          /\ sweep' = [sweep EXCEPT !.results[c] =
                [done |-> TRUE,
                 top |-> FindRelevanceChunks(order.r_topic_term_dists, term_frequency, R,
                                             sweep.chunks[c], lambda_step[2])]]
    /\ UNCHANGED << pc, args, error, order, term_topic_freq, topic_info, token_table, prepared >>

\* lines 149-152: Parallel returns the results in the order of the chunks
TopicInfoEnd ==
    /\ pc = "sweep"
    /\ \A c \in 1..Len(sweep.chunks) : sweep.results[c].done
    /\ topic_info' = [rows |->
            TopicInfoRows(sweep.default_term_info,
                          [c \in 1..Len(sweep.chunks) |-> sweep.results[c].top],
                          order.r_topic_term_dists, term_topic_freq, term_frequency, vocab)]
    /\ pc' = "info"
    /\ UNCHANGED << args, error, order, term_topic_freq, sweep, token_table, prepared >>

-----------------------------------------------------------------------------
(* _token_table *)

\* query('Freq >= 0.5'); a NaN compares false
AtLeastHalf(x) == ~IsNaN(x) /\ 2 * x.num >= x.den

\* the rows (term, Topic) of the terms of topic_info, the topics numbered 1..K by
\* position, filtered, rounded, divided by the term's frequency, sorted by Term, Topic
TokenTable(info, ttf, vc, tf) ==
    LET term_ix == { info.rows[i].index : i \in 1..Len(info.rows) }
        K == Len(ttf.index)
        kept == { tk \in term_ix \X (1..K) : AtLeastHalf(ttf.values[tk[2]][tk[1] + 1]) }
        Before(a, b) ==
            \/ vc[a[1] + 1] < vc[b[1] + 1]
            \/ vc[a[1] + 1] = vc[b[1] + 1] /\ a[1] < b[1]
            \/ a[1] = b[1] /\ a[2] < b[2]
        sorted == SortBy([b \in kept |-> Cardinality({ a \in kept : Before(a, b) })])
    IN  [i \in 1..Len(sorted) |->
            LET w == sorted[i][1]
                raw == ttf.values[sorted[i][2]][w + 1]
            IN  [term |-> w,
                 Topic |-> sorted[i][2],
                 Freq |-> Frac(10 * Round(raw.num, raw.den), tf[w + 1]),
                 Term |-> vc[w + 1]]]

TokenTableStep ==
    /\ pc = "info"
    /\ token_table' = [rows |-> TokenTable(topic_info, term_topic_freq, vocab, term_frequency)]
    /\ pc' = "tokens"
    /\ UNCHANGED << args, error, order, term_topic_freq, sweep, topic_info, prepared >>

-----------------------------------------------------------------------------
(* _topic_coordinates and the PreparedData prepare() returns *)

\* mds is a strategy given by the caller: row i of its result is the point of row i of
\* the matrix it is given.  The point is kept as the distribution it stands for.
Mds(ttd) == [i \in 1..Len(ttd.index) |-> ttd.values[i]]

\* the frame takes the index of the Series topic_proportion; the columns built from
\* arrays and from range(1, K + 1) are laid beside it by position
TopicCoordinates(ttd, topic_proportion) ==
    LET mds_res == Mds(ttd)
    IN  [i \in 1..Len(ttd.index) |->
            [index |-> topic_proportion.index[i],
             xy |-> mds_res[i],
             topics |-> i,
             cluster |-> 1,
             Freq |-> Frac(topic_proportion.values[i].num * 100,
                           topic_proportion.values[i].den)]]

ClientTopicOrder(topic_order) == [i \in 1..Len(topic_order) |-> topic_order[i] + 1]

Return ==
    /\ pc = "tokens"
    /\ prepared' = [topic_coordinates |->
                        TopicCoordinates(order.r_topic_term_dists, order.topic_proportion),
                    topic_order |-> ClientTopicOrder(order.topic_order)]
    /\ pc' = "done"
    /\ UNCHANGED << args, error, order, term_topic_freq, sweep, topic_info, token_table >>

-----------------------------------------------------------------------------
(* Inputs *)

None == [none |-> TRUE]

Matrices(rows, ns) == UNION { [1..n -> rows] : n \in ns }

\* rows over three terms: sums 1, 1, 1.004, 0.996, 1.3, 0.7, 1.5
ValTermRows == { <<700, 200, 100>>, <<334, 333, 333>>, <<502, 502, 0>>, <<498, 498, 0>>,
                 <<600, 700, 0>>, <<300, 400, 0>>, <<500, 500, 500>> }
\* rows over two topics: sums 1, 1.3, 0.7
ValTopicRows == { <<900, 100>>, <<600, 700>>, <<200, 500>> }

InitValidate ==
    /\ pc = "start"
    /\ topic_term_dists \in Matrices(ValTermRows, 1..2) \cup { << <<500, 500>>, <<200, 800>> >> }
    /\ doc_topic_dists \in Matrices(ValTopicRows, 1..2) \cup { << <<1000>>, <<1000>> >> }
    /\ doc_lengths \in { <<10, 20>>, <<10>> }
    /\ vocab \in { <<3, 1, 2>>, <<1, 2>> }
    /\ term_frequency \in { <<50, 100, 150>>, <<50, 100>> }
    /\ R = 1
    /\ lambda_step = <<1, 1>>
    /\ n_jobs = 1
    /\ cpus = 1
    /\ error = NoError
    /\ order = None
    /\ term_topic_freq = None
    /\ sweep = None
    /\ topic_info = None
    /\ token_table = None
    /\ prepared = None

\* two or three topics over three terms; rows that sum to 1.3 and to 0.7 are among them
TopicTermInputs ==
    { << <<700, 200, 100>>, <<100, 300, 600>> >>,
      << <<100, 300, 600>>, <<360, 320, 320>> >>,
      << <<360, 320, 320>>, <<700, 200, 100>> >>,
      << <<500, 500, 0>>, <<100, 300, 600>> >>,
      << <<500, 500, 0>>, <<600, 700, 0>> >>,
      << <<600, 700, 0>>, <<300, 400, 0>> >>,
      << <<300, 400, 0>>, <<700, 200, 100>> >>,
      << <<360, 320, 320>>, <<360, 320, 320>> >>,
      << <<500, 500, 0>>, <<200, 800, 0>> >>,
      << <<700, 200, 100>>, <<100, 300, 600>>, <<360, 320, 320>> >> }

DocTopicInputs ==
    { << <<900, 100>>, <<200, 800>> >>,
      << <<500, 500>>, <<500, 500>> >>,
      << <<200, 800>>, <<400, 600>> >>,
      << <<200, 300, 500>>, <<100, 600, 300>> >> }

Init ==
    /\ pc = "start"
    /\ topic_term_dists \in TopicTermInputs
    /\ doc_topic_dists \in DocTopicInputs
    /\ doc_lengths \in { <<1, 2>>, <<3, 1>> }
    /\ vocab = <<3, 1, 2>>
    /\ term_frequency \in { <<50, 100, 150>>, <<20, 10, 40>>, <<50, 100, 26>> }
    /\ R \in 1..MaxR
    /\ lambda_step \in { <<1, 1>>, <<1, 2>>, <<2, 3>> }
    /\ n_jobs \in ((-MaxJobs)..MaxJobs) \ {0}
    /\ cpus \in 1..MaxCpus
    /\ error = NoError
    /\ order = None
    /\ term_topic_freq = None
    /\ sweep = None
    /\ topic_info = None
    /\ token_table = None
    /\ prepared = None

Next ==
    \/ InputValidate
    \/ TopicReorder
    \/ TermTopicFreqStep
    \/ TopicInfoBegin
    \/ FindRelevanceWorker
    \/ TopicInfoEnd
    \/ TokenTableStep
    \/ Return

Spec == Init /\ [][Next]_vars

NextValidate == InputValidate

SpecValidate == InitValidate /\ [][NextValidate]_vars

-----------------------------------------------------------------------------
(* Properties *)

NTopics == Len(topic_term_dists)
NTerms == Len(vocab)

AfterReorder == { "reordered", "freq", "sweep", "failed", "info", "tokens", "done" }
AfterFreq == { "freq", "sweep", "failed", "info", "tokens", "done" }
AfterBegin == { "sweep", "info", "tokens", "done" }
AfterInfo == { "info", "tokens", "done" }

\* the six rules of section 4.1, each with the message of its bullet
RuleViolations ==
    << << Shape(doc_topic_dists)[2] # Shape(topic_term_dists)[1], MsgTopics >>,
       << Len(doc_lengths) # Shape(doc_topic_dists)[1], MsgDocs >>,
       << Shape(topic_term_dists)[2] # Len(vocab), MsgVocab >>,
       << Len(term_frequency) # Len(vocab), MsgTermFreq >>,
       << NumDistRows(topic_term_dists) # Len(topic_term_dists), MsgTopicTermRows >>,
       << NumDistRows(doc_topic_dists) # Len(doc_topic_dists), MsgDocTopicRows >> >>

Occurrences(seq, x) == Cardinality({ i \in DOMAIN seq : seq[i] = x })

\* C1: validation collects: once _input_validate has run, it has raised ValidationError
\* exactly when some rule is violated, the message then holds one bullet for each
\* violated rule and none for a satisfied one, and with no rule violated nothing is
\* raised and nothing is reported.
C1_ValidationCollects ==
    pc # "start" =>
        LET violated == { i \in 1..6 : RuleViolations[i][1] }
        IN  /\ (pc = "raised") <=> (violated # {})
            /\ pc = "raised" =>
                  /\ error.kind = "ValidationError"
                  /\ Len(error.bullets) = Cardinality(violated)
                  /\ \A i \in 1..6 :
                        Occurrences(error.bullets, RuleViolations[i][2])
                            = IF i \in violated THEN 1 ELSE 0
            /\ violated = {} => error = NoError

\* three rules violated at once, a row-sum rule among them
C1_Witness ==
    /\ pc = "raised"
    /\ Len(error.bullets) >= 3
    /\ Occurrences(error.bullets, MsgTopicTermRows) = 1

\* some row of the matrix does not sum to 1 after rounding to 2 decimals
SomeRowOff(matrix) == \E i \in 1..Len(matrix) : Round(SumSeq(matrix[i]), 10) # 100

\* C2: whenever some row of topic_term_dists or of doc_topic_dists does not sum to 1
\* after rounding to 2 decimals, prepare raises ValidationError and the error lists
\* the row-sum rule of that matrix.
C2_EveryBadRowReported ==
    pc # "start" =>
        /\ SomeRowOff(topic_term_dists) =>
              pc = "raised" /\ Occurrences(error.bullets, MsgTopicTermRows) = 1
        /\ SomeRowOff(doc_topic_dists) =>
              pc = "raised" /\ Occurrences(error.bullets, MsgDocTopicRows) = 1

\* the terms of topic_info in the category of the topic shown as id
TopicInfoTerms(id) ==
    { topic_info.rows[i].index :
        i \in { j \in 1..Len(topic_info.rows) : topic_info.rows[j].Category = TopicCategory(id) } }

\* the top-R terms of the topic shown as id for lambda = m / den, by relevance
TopRTerms(id, m, den) ==
    LET p == topic_term_dists[order.topic_order[id] + 1]
    IN  { w \in Terms(NTerms) :
            Cardinality({ v \in Terms(NTerms) :
                RelevanceBefore(p, term_frequency, m, den, v, w) }) < R }

ChunkOrders(n) == { s \in [1..n -> 1..n] : \A i, j \in 1..n : s[i] = s[j] => i = j }

\* the term set of the topic at position id when the chunk results are concatenated
\* in the order s
TermsInOrder(id, s) ==
    Range(ConcatFrames([c \in 1..Len(s) |-> sweep.results[s[c]].top], NTopics)[id])

\* the positions (chunk, place) at which the sweep's i-th lambda is ranked
PlacesOf(i) ==
    { cp \in (1..Len(sweep.chunks)) \X (1..Len(sweep.lambda_seq)) :
        /\ cp[2] <= Len(sweep.chunks[cp[1]])
        /\ SumSeq([c \in 1..(cp[1] - 1) |-> Len(sweep.chunks[c])]) + cp[2] = i
        /\ sweep.chunks[cp[1]][cp[2]] = sweep.lambda_seq[i] }

\* the union of the top-R terms over the lambdas of the sweep
C3_UnionOverSweep ==
    pc \in AfterInfo =>
        \A id \in 1..NTopics :
            /\ TopicInfoTerms(id) =
                  UNION { TopRTerms(id, sweep.lambda_seq[i], lambda_step[2]) :
                            i \in 1..Len(sweep.lambda_seq) }
            /\ \A s \in ChunkOrders(Len(sweep.chunks)) :
                  TermsInOrder(id, s) = TopicInfoTerms(id)

C3_EachLambdaOnce ==
    pc \in AfterBegin =>
        /\ SumSeq([c \in 1..Len(sweep.chunks) |-> Len(sweep.chunks[c])]) = Len(sweep.lambda_seq)
        /\ \A i \in 1..Len(sweep.lambda_seq) : Cardinality(PlacesOf(i)) = 1

C3_HoldsExtremes ==
    pc \in AfterInfo =>
        \A id \in 1..NTopics :
            /\ TopRTerms(id, 0, lambda_step[2]) \subseteq TopicInfoTerms(id)
            /\ TopRTerms(id, lambda_step[2], lambda_step[2]) \subseteq TopicInfoTerms(id)

\* C3: the terms of each topic in TopicInfo are the union over the sweep of the top-R
\* terms by relevance, each lambda is ranked in exactly one chunk, the set is the same
\* for every order of the chunk results, and it holds the top-R terms by pure log-lift
\* (lambda = 0) and by pure log-probability (lambda = 1).
C3_TermsAreUnionOfSweep == C3_UnionOverSweep /\ C3_EachLambdaOnce /\ C3_HoldsExtremes

\* C4: the sweep starts at 0, advances by lambda_step, stays inside [0, 1] and ends
\* with 1 (values are numerators over the denominator of lambda_step).
C4_SweepInsideUnitInterval ==
    pc \in AfterBegin =>
        LET seq == sweep.lambda_seq
        IN  /\ seq[1] = 0
            /\ \A i \in 1..(Len(seq) - 1) : seq[i + 1] - seq[i] = lambda_step[1]
            /\ \A i \in 1..Len(seq) : 0 <= seq[i] /\ seq[i] <= lambda_step[2]
            /\ seq[Len(seq)] = lambda_step[2]

\* the mass of the topic with the original label k: the documents' weights of the
\* topic, each times the document's length
TopicMass(k) == SumSeq([d \in 1..Len(doc_topic_dists) |->
                           doc_topic_dists[d][k + 1] * doc_lengths[d]])

\* C5: topic_order holds every original topic index exactly once, the topic
\* proportions read along it do not increase, and the rows of topic_term_dists, the
\* columns of doc_topic_dists and the topic masses are all laid out in that order
\* from the reordering on.
C5_TopicOrderSortsAll ==
    pc \in AfterReorder =>
        LET ord == order.topic_order
            total == SumSeq([k \in 1..NTopics |-> TopicMass(k - 1)])
        IN  /\ Len(ord) = NTopics
            /\ \A k \in Labels(NTopics) : Cardinality({ i \in 1..NTopics : ord[i] = k }) = 1
            /\ \A i \in 1..(NTopics - 1) :
                  TopicMass(ord[i]) * total >= TopicMass(ord[i + 1]) * total
            /\ \A i \in 1..NTopics :
                  /\ order.topic_proportion.values[i] = Frac(TopicMass(ord[i]), total)
                  /\ order.r_topic_freq.values[i] = TopicMass(ord[i])
                  /\ order.r_topic_term_dists.values[i] = topic_term_dists[ord[i] + 1]
                  /\ \A d \in 1..Len(doc_topic_dists) :
                        order.r_doc_topic_dists.values[d][i] = doc_topic_dists[d][ord[i] + 1]
            /\ order.topic_proportion.index = ord
            /\ order.r_topic_freq.index = ord
            /\ order.r_topic_term_dists.index = ord
            /\ order.r_doc_topic_dists.columns = ord

\* three topics are reordered, and not by a permutation that is its own inverse
C5_Witness ==
    /\ pc \in AfterReorder
    /\ order.topic_order = <<1, 2, 0>>
    /\ TopicMass(1) > TopicMass(2)
    /\ TopicMass(2) > TopicMass(0)

\* the corrected frequency of term w in the topic with the original label k
CorrectedFreq(k, w) ==
    LET colsum == SumSeq([j \in 1..NTopics |-> topic_term_dists[j][w + 1] * TopicMass(j - 1)])
    IN  IF colsum = 0 THEN [num |-> 0, den |-> 0]
        ELSE Frac(topic_term_dists[k + 1][w + 1] * TopicMass(k) * term_frequency[w + 1],
                  10 * colsum)

C7_DefaultRowsHaveRanks ==
    /\ pc # "failed"
    /\ pc \in AfterBegin =>
          LET rows == sweep.default_term_info
              terms == DefaultTerms(Saliency(order.r_topic_term_dists,
                                             order.topic_proportion, term_frequency), R)
          IN  /\ Len(rows) = R
              /\ \A i \in 1..Len(rows) :
                    /\ rows[i].index = terms[i]
                    /\ rows[i].Category = DefaultCategory
                    /\ rows[i].logprob = Fin((R - i + 1) * 10000)
                    /\ rows[i].loglift = Fin((R - i + 1) * 10000)

\* C8: every TokenTable row has a frequency in [0, 1], comes from a corrected raw
\* frequency of at least 0.5, and is of a term of TopicInfo.
C8_TokenTableInUnitInterval ==
    pc \in { "tokens", "done" } =>
        \A i \in 1..Len(token_table.rows) :
            LET row == token_table.rows[i]
                raw == term_topic_freq.values[row.Topic][row.term + 1]
            IN  /\ row.Freq.den > 0
                /\ 0 <= row.Freq.num
                /\ row.Freq.num <= row.Freq.den
                /\ ~IsNaN(raw) /\ 2 * raw.num >= raw.den
                /\ \E j \in 1..Len(topic_info.rows) : topic_info.rows[j].index = row.term

\* C9: the sweep is split into n_jobs chunks when n_jobs > 0 and into
\* cpu_count() + 1 + n_jobs chunks when n_jobs < 0; the chunks are not empty and their
\* concatenation in order is the sweep.
C9_ChunkCountIsJobs ==
    pc \in AfterBegin =>
        /\ Len(sweep.chunks) = IF n_jobs > 0 THEN n_jobs ELSE cpus + 1 + n_jobs
        /\ \A c \in 1..Len(sweep.chunks) : Len(sweep.chunks[c]) > 0
        /\ FlattenSeq(sweep.chunks) = sweep.lambda_seq

RECURSIVE FracSum(_)
FracSum(fs) ==
    IF fs = << >> THEN [num |-> 0, den |-> 1]
    ELSE LET rest == FracSum(Tail(fs))
         IN  Frac(Head(fs).num * rest.den + rest.num * Head(fs).den, Head(fs).den * rest.den)

\* C10: for every term, the corrected term-topic frequencies summed over the topics
\* give the term's frequency.
C10_MassPreserved ==
    pc \in AfterFreq =>
        \A w \in 1..NTerms :
            LET col == [i \in 1..NTopics |-> term_topic_freq.values[i][w]]
            IN  /\ \A i \in 1..NTopics : ~IsNaN(col[i])
                /\ FracSum(col) = Frac(term_frequency[w], 10)

=============================================================================
